---------------------------- MODULE Spec2Model ----------------------------
(***************************************************************************)
(* Model of "Appendix B/monolithic_hybrid_compare.py": the ACL chain       *)
(* compiler (build_acl_logic), the base constraint loader                  *)
(* (load_base_constraints), and the two query strategies                   *)
(* (run_monolithic_benchmark / check_mono, run_hybrid_benchmark /          *)
(* check_hybrid) working on clones of one base solver.                     *)
(*                                                                         *)
(* Representation.                                                         *)
(*  - A Python int is kept as a pair <<hi, lo>> with value hi*65536 + lo   *)
(*    and 0 <= lo < 65536, so that the 32-bit address arithmetic of        *)
(*    get_ip_interval is done at full width.                               *)
(*  - A dotted-quad string "a.b.c.d" or "a.b.c.d/m" is the record          *)
(*    [quad |-> <<a,b,c,d>>, len |-> <<>> or <<m>>].                       *)
(*  - A dict entry that may be absent (rule.get(key, default)) is a        *)
(*    sequence of length 0 or 1.                                           *)
(*  - Other strings that the code edits (route-target strings) are         *)
(*    sequences of one-character strings.                                  *)
(*  - A Z3 constant is identified by its sort and its name, as in Z3.      *)
(*                                                                         *)
(* The driver.  __main__ runs run_hybrid_benchmark, then                   *)
(* run_monolithic_benchmark, and each runs three literal queries when PE1  *)
(* and PE2 are declared (HybridWorkload, MonoWorkload).  Both functions    *)
(* take the base solver as an argument, and check_mono / check_hybrid take *)
(* any router ids and address, so the model lets the two runs start in     *)
(* either order and lets a run pass any query of Queries to its check      *)
(* function; the behaviours of __main__ are among those of Spec.           *)
(*                                                                         *)
(* s.check() is the satisfiability of the asserted formulas (Sat): the     *)
(* sorts Router and RT are uninterpreted, so a constant that no assertion  *)
(* constrains may denote an element that no fact mentions.                 *)
(***************************************************************************)
EXTENDS Integers, Sequences, FiniteSets, TLC

\* ------------------------------------------------------------------ bounds
\* longest ACL chain drawn for the compiler specification
MaxRules == 3
\* number of check_mono / check_hybrid calls in one session
MaxQueries == 3

\* ------------------------------------------------------- integer arithmetic
Half == 256 * 256

Norm(hi, lo) == <<hi + (lo \div Half), lo % Half>>

IntAdd(x, y) == Norm(x[1] + y[1], x[2] + y[2])

IntPred(x) == IF x[2] = 0 THEN <<x[1] - 1, Half - 1>> ELSE <<x[1], x[2] - 1>>

IntSucc(x) == Norm(x[1], x[2] + 1)

IntLe(x, y) == x[1] < y[1] \/ (x[1] = y[1] /\ x[2] <= y[2])

RECURSIVE Pow2(_)
Pow2(n) == IF n = 0 THEN 1 ELSE 2 * Pow2(n - 1)

\* bitwise and of two 16-bit values
RECURSIVE And16(_, _, _)
And16(a, b, n) ==
    IF n = 0 THEN 0
    ELSE (IF a % 2 = 1 /\ b % 2 = 1 THEN 1 ELSE 0)
         + 2 * And16(a \div 2, b \div 2, n - 1)

IntAnd(x, y) == <<And16(x[1], y[1], 16), And16(x[2], y[2], 16)>>

\* 1 << s, for 0 <= s <= 32
Shl1(s) == IF s < 16 THEN <<0, Pow2(s)>> ELSE <<Pow2(s - 16), 0>>

\* (0xFFFFFFFF << s) & 0xFFFFFFFF, for 0 <= s <= 32
MaskBit(s) ==
    IF s <= 16 THEN <<Half - 1, (Half - 1) - (Pow2(s) - 1)>>
    ELSE <<(Half - 1) - (Pow2(s - 16) - 1), 0>>

\* ------------------------------------------------------------ ip helpers
Get(opt, default) == IF opt = <<>> THEN default ELSE opt[1]

\* ip_str_to_int: drops a "/m" suffix, then reads the dotted quad big-endian
ip_str_to_int(ip_str) ==
    LET q == ip_str.quad
    IN  <<q[1] * 256 + q[2], q[3] * 256 + q[4]>>

\* a plausible slip: the mask length is ignored, the interval is the one address
get_ip_interval_host(prefix_str, mask_len) ==
    <<ip_str_to_int(prefix_str), ip_str_to_int(prefix_str)>>

get_ip_interval(prefix_str, mask_len) ==
    LET ip_int   == ip_str_to_int(prefix_str)
        mask_bit == MaskBit(32 - mask_len)
        start_ip == IntAnd(ip_int, mask_bit)
        size     == Shl1(32 - mask_len)
        end_ip   == IntPred(IntAdd(start_ip, size))
    IN  <<start_ip, end_ip>>

\* ------------------------------------------------------------ z3 terms
BoolVal(b) == [op |-> "BoolVal", val |-> b]

\* If(And(ip_var >= start, ip_var <= end), t, e)
IfBetween(ip_var, start, end, t, e) ==
    [op |-> "If", var |-> ip_var, ge |-> start, le |-> end, then |-> t, else |-> e]

\* value of a boolean term with the integer constant/variable of the term bound to v
RECURSIVE EvalBool(_, _)
EvalBool(e, v) ==
    IF e.op = "BoolVal" THEN e.val
    ELSE IF IntLe(e.ge, v) /\ IntLe(v, e.le) THEN EvalBool(e.then, v)
    ELSE EvalBool(e.else, v)

\* ------------------------------------------------------------ ACL compiler
DefaultPrefix == [quad |-> <<0, 0, 0, 0>>, len |-> <<>>]

Tail1(s) == SubSeq(s, 2, Len(s))

\* lines 44-53: the interval of a rule, from 'prefix' ("a.b.c.d/m", or "a.b.c.d"
\* with the length under 'mask', 32 when absent)
RuleInterval(rule) ==
    LET raw_prefix == Get(rule.prefix, DefaultPrefix)
        mask       == IF raw_prefix.len # <<>> THEN raw_prefix.len[1]
                      ELSE Get(rule.mask, 32)
    IN  get_ip_interval(raw_prefix, mask)

\* line 54
ActionDeny(rule) == (Get(rule.action, "permit") = "deny")

\* a plausible slip: the rest of the chain is dropped after the first rule
build_acl_logic_first_only(ip_var, chain) ==
    IF chain = <<>> THEN BoolVal(FALSE)
    ELSE IfBetween(ip_var, RuleInterval(chain[1])[1], RuleInterval(chain[1])[2],
                   BoolVal(ActionDeny(chain[1])), BoolVal(FALSE))

RECURSIVE build_acl_logic(_, _)
build_acl_logic(ip_var, chain) ==
    IF chain = <<>> THEN BoolVal(FALSE)
    ELSE LET rule  == chain[1]
             start == RuleInterval(rule)[1]
             end   == RuleInterval(rule)[2]
         IN  IfBetween(ip_var, start, end, BoolVal(ActionDeny(rule)),
                       build_acl_logic(ip_var, Tail1(chain)))

\* sorted(raw_filters, key=lambda x: x.get('index', 0)): stable insertion sort
RECURSIVE InsertByIndex(_, _)
InsertByIndex(sorted, x) ==
    IF sorted = <<>> THEN <<x>>
    ELSE LET last == sorted[Len(sorted)]
         IN  IF Get(last.index, 0) <= Get(x.index, 0) THEN Append(sorted, x)
             ELSE Append(InsertByIndex(SubSeq(sorted, 1, Len(sorted) - 1), x), last)

\* a plausible slip: the filters are stored in file order
SortByIndex_file_order(raw_filters) == raw_filters

RECURSIVE SortByIndex(_)
SortByIndex(raw_filters) ==
    IF raw_filters = <<>> THEN <<>>
    ELSE InsertByIndex(SortByIndex(SubSeq(raw_filters, 1, Len(raw_filters) - 1)),
                       raw_filters[Len(raw_filters)])


\* ------------------------------------------------------------ python dicts
\* a dict is the sequence of its <<key, value>> items in insertion order
DictHas(d, key) == \E i \in DOMAIN d : d[i][1] = key

DictGet(d, key) == d[CHOOSE i \in DOMAIN d : d[i][1] = key][2]

DictPut(d, key, v) ==
    IF DictHas(d, key)
    THEN [i \in DOMAIN d |-> IF d[i][1] = key THEN <<key, v>> ELSE d[i]]
    ELSE Append(d, <<key, v>>)

DictKeys(d) == {d[i][1] : i \in DOMAIN d}

Range(f) == {f[i] : i \in DOMAIN f}

RECURSIVE SetToSeq(_)
SetToSeq(S) ==
    IF S = {} THEN <<>>
    ELSE LET x == CHOOSE y \in S : TRUE IN <<x>> \o SetToSeq(S \ {x})

\* ------------------------------------------------------------ z3 solver
\* Const(name, sort): a constant is its name and its sort
Const(name, sort) == [sort |-> sort, name |-> name]

Distinct(args) == [k |-> "Distinct", args |-> args]

\* f(a, b) == val   for f in Ibgp_Neighbor, Has_Import_RT, Has_Export_RT
Fact(f, a, b, val) == [k |-> "Fact", f |-> f, a |-> a, b |-> b, is |-> val]

\* ip_var rel n      for rel in ">=", "<=", "=="
Cmp(ip_var, rel, n) == [k |-> "Cmp", var |-> ip_var, rel |-> rel, n |-> n]

\* ForAll([ip_var], Is_Prefix_Denied_Global(r, ip_var) == body)
ForAllDenied(ip_var, r, body) == [k |-> "ForAll", bound |-> ip_var, r |-> r, body |-> body]

\* And(Ibgp_Neighbor(src, dst), Has_Export_RT(src, rt), Has_Import_RT(dst, rt),
\*     Not(denied))
\* denied is a boolean term, or the application Is_Prefix_Denied_Global(r, ip_var)
Propagate(src, dst, rt, denied) ==
    [k |-> "Propagate", src |-> src, dst |-> dst, rt |-> rt, denied |-> denied]

GlobalCall(r, ip_var) == [op |-> "Is_Prefix_Denied_Global", r |-> r, var |-> ip_var]

\* Solver(): one permanent frame, no scope
NewSolver == [frames |-> <<{}>>]

Assertions(s) == UNION Range(s.frames)

Depth(s) == Len(s.frames) - 1

Permanent(s) == s.frames[1]

SolverAdd(s, fs) == [frames |-> [s.frames EXCEPT ![Len(s.frames)] = @ \cup fs]]

Push(s) == [frames |-> Append(s.frames, {})]

\* a plausible slip: the scope is never discarded
PopForgotten(s) == s

Pop(s) == [frames |-> SubSeq(s.frames, 1, Len(s.frames) - 1)]

\* a plausible slip: the same solver object is handed back
translate_alias(h, ref) == [heap |-> h, ref |-> ref]

\* Solver.translate, on the heap h of solver objects: a new object holding the
\* assertions of h[ref], with no scope; the result is the new heap and reference
translate(h, ref) ==
    [heap |-> Append(h, [frames |-> <<Assertions(h[ref])>>]), ref |-> Len(h) + 1]

\* --- the decision procedure (s.check()), as the satisfiability of the
\* --- assertions in the theory of uninterpreted sorts and functions + integers
Breaks(e) ==
    LET RECURSIVE B(_)
        B(x) == IF x.op = "BoolVal" THEN {}
                ELSE {x.ge, IntSucc(x.le)} \cup B(x.then) \cup B(x.else)
    IN  B(e)

\* two piecewise-constant definitions agree on every integer
SameOnAllInts(e1, e2) ==
    \A a \in Breaks(e1) \cup Breaks(e2) : EvalBool(e1, a) = EvalBool(e2, a)

Sat(A) ==
    LET distincts == {f \in A : f.k = "Distinct"}
        facts     == {f \in A : f.k = "Fact"}
        cmps      == {f \in A : f.k = "Cmp"}
        defs      == {f \in A : f.k = "ForAll"}
        props     == {f \in A : f.k = "Propagate"}
        named     == UNION {Range(f.args) : f \in distincts}
        \* values the integer constant can take: fixed by the equalities if any
        eqs       == {c.n : c \in {x \in cmps : x.rel = "=="}}
        cands     == IF eqs = {} THEN {<<0, 0>>} ELSE eqs
        CmpOk(v)  == \A c \in cmps :
                        CASE c.rel = "==" -> c.n = v
                          [] c.rel = ">=" -> IntLe(c.n, v)
                          [] c.rel = "<=" -> IntLe(v, c.n)
        \* f(a, b) can be true: nothing asserts it false
        CanHold(f, a, b) == ~ \E x \in facts : x.f = f /\ x.a = a /\ x.b = b /\ ~ x.is
        \* a constant outside every Distinct, with no fact about it, can be any
        \* element of its sort, in particular one that no fact mentions
        Fresh     == Const(<<>>, "RT")
        Witness(rt) == IF \E x \in facts : x.b = rt THEN {rt}
                       ELSE {c \in named : c.sort = "RT"} \cup {Fresh}
        Denied(d, v) ==
            IF d.op = "Is_Prefix_Denied_Global"
            THEN {EvalBool(f.body, v) : f \in {x \in defs : x.r = d.r}}
            ELSE {EvalBool(d, v)}
    IN  /\ \A f \in distincts :
              \A i, j \in DOMAIN f.args : i # j => f.args[i] # f.args[j]
        /\ \A x, y \in facts :
              (x.f = y.f /\ x.a = y.a /\ x.b = y.b) => x.is = y.is
        /\ \A x, y \in defs : x.r = y.r => SameOnAllInts(x.body, y.body)
        /\ \E v \in cands :
              /\ CmpOk(v)
              /\ \A p \in props :
                    /\ CanHold("Ibgp_Neighbor", p.src, p.dst)
                    /\ \E w \in Witness(p.rt) :
                          /\ CanHold("Has_Export_RT", p.src, w)
                          /\ CanHold("Has_Import_RT", p.dst, w)
                    /\ TRUE \notin Denied(p.denied, v)

check(s) == IF Sat(Assertions(s)) THEN "sat" ELSE "unsat"

\* ------------------------------------------------------------ names
PE1 == <<"P", "E", "1">>
PE2 == <<"P", "E", "2">>
P3 == <<"P", "3">>
PE7 == <<"P", "E", "7">>
PE9 == <<"P", "E", "9">>

Ip(a, b, c, d) == [quad |-> <<a, b, c, d>>, len |-> <<>>]

Pfx(a, b, c, d, m) == [quad |-> <<a, b, c, d>>, len |-> <<m>>]

\* an import_route_filters entry; every key may be absent
Rule(index, prefix, mask, action) ==
    [index |-> index, prefix |-> prefix, mask |-> mask, action |-> action]

\* a vpn_network_intents entry
Intent(pe_id, export_rt, import_rt, filters) ==
    [pe_id |-> pe_id, export_rt |-> export_rt, import_rt |-> import_rt,
     import_route_filters |-> filters]

\* ------------------------------------------------------------ state
VARIABLES
    topo,        \* parsed topology file: [nodes, ibgp_pe_mesh]
    conf,        \* parsed config file: the vpn_network_intents list
    pc,          \* where the session is
    exc,         \* <<>>, or <<the exception that ended the session>>
    heap,        \* the solver objects; a reference is an index into it
    s_base,      \* __main__: reference to the base solver (0: not yet built)
    s_hyb,       \* run_hybrid_benchmark: s
    s_mono,      \* run_monolithic_benchmark: s
    r_map,       \* dict router id -> Router constant
    rt_z3_map,   \* function rt string -> RT constant
    acl_db,      \* dict router id -> chain sorted by index
    todo,        \* strategy runs not yet started
    q,           \* the query being evaluated: <<>> or <<[mode, src, dst, ip]>>
    out,         \* what the checks printed: [mode, src, dst, ip, res]
    nq,          \* number of checks started
    rules,       \* compiler: the chain passed to build_acl_logic
    acl_expr,    \* compiler: <<>> or <<the term built from rules>>
    prev_expr,   \* compiler: <<>> or <<the term built before the last reordering>>
    swapped      \* compiler: <<>> or <<i, j>>, the positions last exchanged

sessionVars == <<topo, conf, pc, exc, heap, s_base, s_hyb, s_mono, r_map, rt_z3_map,
                 acl_db, todo, q, out, nq>>

aclVars == <<rules, acl_expr, prev_expr, swapped>>

vars == <<topo, conf, pc, exc, heap, s_base, s_hyb, s_mono, r_map, rt_z3_map,
          acl_db, todo, q, out, nq, rules, acl_expr, prev_expr, swapped>>

\* ------------------------------------------------------------ inputs
\* route-target strings "100:1", "200:1", "1:1", "1_1"
RT100 == <<"1", "0", "0", ":", "1">>
RT200 == <<"2", "0", "0", ":", "1">>
RT1c1 == <<"1", ":", "1">>
RT1u1 == <<"1", "_", "1">>

Topo(nodes, mesh) == [nodes |-> nodes, ibgp_pe_mesh |-> mesh]

\* the reference topology; one with a router that has no configuration and a
\* session that names an undeclared router; one that declares PE1 twice
TopoRef == Topo(<<PE1, PE2>>, << <<PE1, PE2>> >>)
TopoP3 == Topo(<<PE2, PE1, P3>>, << <<PE2, PE1>>, <<PE1, PE7>> >>)
TopoDup == Topo(<<PE1, PE2, PE1>>, << <<PE1, PE2>> >>)

\* the reference chain of PE1, given out of index order in the file
RefFilters ==
    << Rule(<<30>>, <<Pfx(10, 0, 0, 0, 8)>>, <<>>, <<"permit">>),
       Rule(<<10>>, <<Pfx(192, 168, 1, 0, 24)>>, <<>>, <<"permit">>),
       Rule(<<20>>, <<Ip(10, 0, 1, 0)>>, <<24>>, <<"deny">>) >>

ConfRef ==
    << Intent(PE1, <<RT100>>, <<RT100>>, RefFilters),
       Intent(PE2, <<RT100>>, <<RT100>>, <<>>) >>

\* two route-target strings that differ only in ':' against '_'
ConfRtClash ==
    << Intent(PE1, <<RT1c1>>, <<RT1u1>>,
              << Rule(<<10>>, <<Pfx(10, 0, 1, 0, 24)>>, <<>>, <<"deny">>) >>),
       Intent(PE2, <<RT1u1>>, <<RT1c1>>, <<>>) >>

\* a rule whose action is neither permit nor deny
ConfBadAction ==
    << Intent(PE1, <<RT100>>, <<RT100, RT200>>,
              << Rule(<<10>>, <<Pfx(10, 0, 1, 0, 24)>>, <<>>, <<"drop">>),
                 Rule(<<20>>, <<Pfx(10, 0, 0, 0, 8)>>, <<>>, <<"deny">>) >>),
       Intent(PE2, <<RT200>>, <<RT100>>, <<>>) >>

\* two rules of one chain with the same index; a rule with no index, mask, action
ConfDupIndex ==
    << Intent(PE1, <<RT100>>, <<RT100>>,
              << Rule(<<10>>, <<Pfx(10, 0, 1, 0, 24)>>, <<>>, <<"deny">>),
                 Rule(<<10>>, <<Pfx(10, 0, 0, 0, 8)>>, <<>>, <<"permit">>) >>),
       Intent(PE2, <<RT100>>, <<RT100>>,
              << Rule(<<5>>, <<Ip(192, 168, 1, 1)>>, <<>>, <<"deny">>),
                 Rule(<<>>, <<Ip(10, 0, 99, 1)>>, <<>>, <<>>) >>) >>

\* an intent for a router that the topology does not declare
ConfStray ==
    << Intent(PE1, <<RT100>>, <<RT100>>, RefFilters),
       Intent(PE7, <<RT100>>, <<RT100>>, <<>>) >>

\* the pairs of files a session is run on
Inputs ==
    { <<TopoRef, ConfRef>>, <<TopoRef, ConfRtClash>>, <<TopoRef, ConfBadAction>>,
      <<TopoRef, ConfDupIndex>>, <<TopoRef, ConfStray>>,
      <<TopoP3, ConfRef>>, <<TopoDup, ConfRef>> }

Query(src_id, dst_id, ip_str) == [src |-> src_id, dst |-> dst_id, ip |-> ip_str]

\* the calls of run_monolithic_benchmark and of run_hybrid_benchmark
MonoWorkload ==
    << Query(PE1, PE2, Ip(192, 168, 1, 1)),
       Query(PE2, PE1, Ip(10, 0, 1, 100)),
       Query(PE2, PE1, Ip(10, 0, 99, 1)) >>

HybridWorkload ==
    << Query(PE2, PE1, Ip(192, 168, 1, 1)),
       Query(PE2, PE1, Ip(10, 0, 10, 100)),
       Query(PE2, PE1, Ip(10, 0, 99, 1)) >>

\* the queries a caller of check_mono / check_hybrid passes: those of the two
\* benchmarks, and two that name a router id no topology declares
Queries ==
    Range(MonoWorkload) \cup Range(HybridWorkload)
    \cup { Query(PE9, PE1, Ip(10, 0, 1, 100)), Query(PE1, PE9, Ip(10, 0, 1, 100)) }

\* ------------------------------------------------------------ load_base_constraints
all_routers(t) == [i \in DOMAIN t.nodes |-> Const(t.nodes[i], "Router")]

RECURSIVE RMapOf(_)
RMapOf(nodes) ==
    IF nodes = <<>> THEN <<>>
    ELSE LET nid == nodes[Len(nodes)]
         IN  DictPut(RMapOf(SubSeq(nodes, 1, Len(nodes) - 1)), nid, Const(nid, "Router"))

true_pairs(t, rm) ==
    UNION { IF DictHas(rm, s[1]) /\ DictHas(rm, s[2])
            THEN { <<DictGet(rm, s[1]), DictGet(rm, s[2])>>,
                   <<DictGet(rm, s[2]), DictGet(rm, s[1])>> }
            ELSE {} : s \in Range(t.ibgp_pe_mesh) }

NeighborFacts(t, rm) ==
    LET pairs == true_pairs(t, rm)
        rs    == Range(all_routers(t))
    IN  { Fact("Ibgp_Neighbor", r1, r2, <<r1, r2>> \in pairs) : r1 \in rs, r2 \in rs }

all_rt_strs(c) == UNION { Range(i.export_rt) \cup Range(i.import_rt) : i \in Range(c) }

RECURSIVE PeConfMapOf(_)
PeConfMapOf(c) ==
    IF c = <<>> THEN <<>>
    ELSE LET intent == c[Len(c)]
         IN  DictPut(PeConfMapOf(SubSeq(c, 1, Len(c) - 1)), intent.pe_id, intent)

RECURSIVE AclDbOfConf(_)
AclDbOfConf(c) ==
    IF c = <<>> THEN <<>>
    ELSE LET intent == c[Len(c)]
         IN  DictPut(AclDbOfConf(SubSeq(c, 1, Len(c) - 1)), intent.pe_id,
                     SortByIndex(intent.import_route_filters))

\* f"rt_{s.replace(':', '_')}"
RtName(str) == <<"r", "t", "_">> \o [i \in DOMAIN str |-> IF str[i] = ":" THEN "_" ELSE str[i]]

RtZ3MapOf(c) == [str \in all_rt_strs(c) |-> Const(RtName(str), "RT")]

\* Distinct(list(rt_z3_map.values())), when the map is not empty
RtDistinct(c) ==
    LET keys == SetToSeq(all_rt_strs(c))
    IN  IF keys = <<>> THEN {}
        ELSE { Distinct([i \in DOMAIN keys |-> RtZ3MapOf(c)[keys[i]]]) }

\* the loop over r_map.items(): membership facts, and the empty chains
RtFacts(c, rm) ==
    LET pcm  == PeConfMapOf(c)
        rtm  == RtZ3MapOf(c)
        For(nid) ==
            IF DictHas(pcm, nid)
            THEN LET my_im == Range(DictGet(pcm, nid).import_rt)
                     my_ex == Range(DictGet(pcm, nid).export_rt)
                 IN  UNION { { Fact("Has_Import_RT", DictGet(rm, nid), rtm[str], str \in my_im),
                               Fact("Has_Export_RT", DictGet(rm, nid), rtm[str], str \in my_ex) } :
                             str \in DOMAIN rtm }
            ELSE UNION { { Fact("Has_Import_RT", DictGet(rm, nid), rtm[str], FALSE),
                           Fact("Has_Export_RT", DictGet(rm, nid), rtm[str], FALSE) } :
                         str \in DOMAIN rtm }
    IN  UNION { For(nid) : nid \in DictKeys(rm) }

RECURSIVE AclDbFill(_, _, _, _)
AclDbFill(db, pcm, rm, n) ==
    IF n = 0 THEN db
    ELSE LET before == AclDbFill(db, pcm, rm, n - 1)
             nid    == rm[n][1]
         IN  IF DictHas(pcm, nid) THEN before ELSE DictPut(before, nid, <<>>)

AclDbOf(c, rm) == AclDbFill(AclDbOfConf(c), PeConfMapOf(c), rm, Len(rm))

BaseAssertions(t, c) ==
    LET rm == RMapOf(t.nodes)
    IN  {Distinct(all_routers(t))} \cup NeighborFacts(t, rm)
        \cup RtDistinct(c) \cup RtFacts(c, rm)


\* ------------------------------------------------------------ session
NoChain == <<>>

SessionInit ==
    /\ \E in \in Inputs : topo = in[1] /\ conf = in[2]
    /\ pc = "start"
    /\ exc = <<>>
    /\ heap = <<>>
    /\ s_base = 0
    /\ s_hyb = 0
    /\ s_mono = 0
    /\ r_map = <<>>
    /\ rt_z3_map = <<>>
    /\ acl_db = <<>>
    /\ todo = {"hybrid", "mono"}
    /\ q = <<>>
    /\ out = <<>>
    /\ nq = 0

CompilerIdle ==
    /\ rules = NoChain
    /\ acl_expr = <<>>
    /\ prev_expr = <<>>
    /\ swapped = <<>>

Init == SessionInit /\ CompilerIdle

\* lines 64-129
load_base_constraints ==
    /\ pc = "start"
    /\ heap' = <<SolverAdd(NewSolver, BaseAssertions(topo, conf))>>
    /\ s_base' = 1
    /\ r_map' = RMapOf(topo.nodes)
    /\ rt_z3_map' = RtZ3MapOf(conf)
    /\ acl_db' = AclDbOf(conf, RMapOf(topo.nodes))
    /\ pc' = "main"
    /\ UNCHANGED <<topo, conf, exc, s_hyb, s_mono, todo, q, out, nq>>
    /\ UNCHANGED aclVars

\* the KeyError of a failed r_map[...] lookup, with the function that raised it
KeyError(where) == [type |-> "KeyError", where |-> where]

rt_val == Const(<<"r", "t", "_", "v", "a", "l">>, "RT")

MaxIp == <<Half - 1, Half - 1>>

\* s.add(target_ip_var >= 0, target_ip_var <= 4294967295)
IpBounds == { Cmp("target_ip_var", ">=", <<0, 0>>), Cmp("target_ip_var", "<=", MaxIp) }

\* s = base_solver.translate(base_solver.ctx); s.add(the address bounds)
CloneOf(h, ref) ==
    LET t == translate(h, ref)
    IN  [heap |-> [t.heap EXCEPT ![t.ref] = SolverAdd(@, IpBounds)], ref |-> t.ref]

\* lines 203-214: the clone of run_hybrid_benchmark
run_hybrid_benchmark ==
    /\ pc = "main"
    /\ "hybrid" \in todo
    /\ heap' = CloneOf(heap, s_base).heap
    /\ s_hyb' = CloneOf(heap, s_base).ref
    /\ todo' = todo \ {"hybrid"}
    /\ pc' = "hybrid"
    /\ UNCHANGED <<topo, conf, exc, s_base, s_mono, r_map, rt_z3_map, acl_db, q, out, nq>>
    /\ UNCHANGED aclVars

\* lines 153-159: the items of acl_db up to the first router id that r_map lacks
RECURSIVE Injectable(_, _)
Injectable(db, rm) ==
    IF db = <<>> \/ ~ DictHas(rm, db[1][1]) THEN <<>>
    ELSE <<db[1]>> \o Injectable(Tail1(db), rm)

\* a plausible slip: every definition is built from the chain of the first item
GlobalDefsFirstChain(items, rm) ==
    { ForAllDenied("sym_ip", DictGet(rm, items[i][1]),
                   build_acl_logic("sym_ip", items[1][2])) : i \in DOMAIN items }

GlobalDefs(items, rm) ==
    { ForAllDenied("sym_ip", DictGet(rm, items[i][1]),
                   build_acl_logic("sym_ip", items[i][2])) : i \in DOMAIN items }

\* lines 135-163, every router id of acl_db found in r_map
run_monolithic_benchmark ==
    /\ pc = "main"
    /\ "mono" \in todo
    /\ Injectable(acl_db, r_map) = acl_db
    /\ LET c == CloneOf(heap, s_base)
       IN  /\ heap' = [c.heap EXCEPT ![c.ref] = SolverAdd(@, GlobalDefs(acl_db, r_map))]
           /\ s_mono' = c.ref
    /\ todo' = todo \ {"mono"}
    /\ pc' = "mono"
    /\ UNCHANGED <<topo, conf, exc, s_base, s_hyb, r_map, rt_z3_map, acl_db, q, out, nq>>
    /\ UNCHANGED aclVars

\* lines 135-154, r_map[nid] raising KeyError in the injection loop
run_monolithic_KeyError ==
    /\ pc = "main"
    /\ "mono" \in todo
    /\ Injectable(acl_db, r_map) # acl_db
    /\ LET c == CloneOf(heap, s_base)
       IN  /\ heap' = [c.heap EXCEPT ![c.ref] =
                          SolverAdd(@, GlobalDefs(Injectable(acl_db, r_map), r_map))]
           /\ s_mono' = c.ref
    /\ todo' = todo \ {"mono"}
    /\ pc' = "error"
    /\ exc' = <<KeyError("run_monolithic_benchmark")>>
    /\ UNCHANGED <<topo, conf, s_base, s_hyb, r_map, rt_z3_map, acl_db, q, out, nq>>
    /\ UNCHANGED aclVars

Known(src_id, dst_id) == DictHas(r_map, src_id) /\ DictHas(r_map, dst_id)

\* acl_db.get(dst_id, [])
ChainOf(dst_id) == IF DictHas(acl_db, dst_id) THEN DictGet(acl_db, dst_id) ELSE <<>>

\* a plausible slip: the predicate of the source router is referenced
MonoFormulaOfSrc(src_id, dst_id) ==
    Propagate(DictGet(r_map, src_id), DictGet(r_map, dst_id), rt_val,
              GlobalCall(DictGet(r_map, src_id), "target_ip_var"))

\* lines 176-181
MonoFormula(src_id, dst_id) ==
    Propagate(DictGet(r_map, src_id), DictGet(r_map, dst_id), rt_val,
              GlobalCall(DictGet(r_map, dst_id), "target_ip_var"))

\* lines 225-240
HybridFormula(src_id, dst_id) ==
    Propagate(DictGet(r_map, src_id), DictGet(r_map, dst_id), rt_val,
              build_acl_logic("target_ip_var", ChainOf(dst_id)))

\* s.push(); the lookups; s.add(target_ip_var == ip_val); s.add(can_propagate)
Asserted(s, query, formula) ==
    SolverAdd(SolverAdd(Push(s), {Cmp("target_ip_var", "==", ip_str_to_int(query.ip))}),
              {formula})

\* lines 166-182
check_mono_assert ==
    /\ pc = "mono"
    /\ nq < MaxQueries
    /\ \E query \in Queries :
          /\ Known(query.src, query.dst)
          /\ heap' = [heap EXCEPT ![s_mono] =
                         Asserted(@, query, MonoFormula(query.src, query.dst))]
          /\ q' = <<[mode |-> "mono", src |-> query.src, dst |-> query.dst, ip |-> query.ip]>>
    /\ nq' = nq + 1
    /\ pc' = "mono_check"
    /\ UNCHANGED <<topo, conf, exc, s_base, s_hyb, s_mono, r_map, rt_z3_map, acl_db, todo, out>>
    /\ UNCHANGED aclVars

\* lines 166-169, r_map[src_id] or r_map[dst_id] raising KeyError
check_mono_KeyError ==
    /\ pc = "mono"
    /\ nq < MaxQueries
    /\ \E query \in Queries : ~ Known(query.src, query.dst)
    /\ heap' = [heap EXCEPT ![s_mono] = Push(@)]
    /\ nq' = nq + 1
    /\ pc' = "error"
    /\ exc' = <<KeyError("check_mono")>>
    /\ UNCHANGED <<topo, conf, s_base, s_hyb, s_mono, r_map, rt_z3_map, acl_db, todo, q, out>>
    /\ UNCHANGED aclVars

\* lines 184-189
check_mono_solve ==
    /\ pc = "mono_check"
    /\ out' = Append(out, [mode |-> "mono", src |-> q[1].src, dst |-> q[1].dst,
                           ip |-> q[1].ip, res |-> check(heap[s_mono])])
    /\ heap' = [heap EXCEPT ![s_mono] = Pop(@)]
    /\ q' = <<>>
    /\ pc' = "mono"
    /\ UNCHANGED <<topo, conf, exc, s_base, s_hyb, s_mono, r_map, rt_z3_map, acl_db, todo, nq>>
    /\ UNCHANGED aclVars

\* line 197
run_monolithic_return ==
    /\ pc = "mono"
    /\ pc' = "main"
    /\ UNCHANGED <<topo, conf, exc, heap, s_base, s_hyb, s_mono, r_map, rt_z3_map, acl_db,
                   todo, q, out, nq>>
    /\ UNCHANGED aclVars

\* lines 217-241
check_hybrid_assert ==
    /\ pc = "hybrid"
    /\ nq < MaxQueries
    /\ \E query \in Queries :
          /\ Known(query.src, query.dst)
          /\ heap' = [heap EXCEPT ![s_hyb] =
                         Asserted(@, query, HybridFormula(query.src, query.dst))]
          /\ q' = <<[mode |-> "hybrid", src |-> query.src, dst |-> query.dst, ip |-> query.ip]>>
    /\ nq' = nq + 1
    /\ pc' = "hybrid_check"
    /\ UNCHANGED <<topo, conf, exc, s_base, s_hyb, s_mono, r_map, rt_z3_map, acl_db, todo, out>>
    /\ UNCHANGED aclVars

\* lines 217-220, r_map[src_id] or r_map[dst_id] raising KeyError
check_hybrid_KeyError ==
    /\ pc = "hybrid"
    /\ nq < MaxQueries
    /\ \E query \in Queries : ~ Known(query.src, query.dst)
    /\ heap' = [heap EXCEPT ![s_hyb] = Push(@)]
    /\ nq' = nq + 1
    /\ pc' = "error"
    /\ exc' = <<KeyError("check_hybrid")>>
    /\ UNCHANGED <<topo, conf, s_base, s_hyb, s_mono, r_map, rt_z3_map, acl_db, todo, q, out>>
    /\ UNCHANGED aclVars

\* lines 243-248
check_hybrid_solve ==
    /\ pc = "hybrid_check"
    /\ out' = Append(out, [mode |-> "hybrid", src |-> q[1].src, dst |-> q[1].dst,
                           ip |-> q[1].ip, res |-> check(heap[s_hyb])])
    /\ heap' = [heap EXCEPT ![s_hyb] = Pop(@)]
    /\ q' = <<>>
    /\ pc' = "hybrid"
    /\ UNCHANGED <<topo, conf, exc, s_base, s_hyb, s_mono, r_map, rt_z3_map, acl_db, todo, nq>>
    /\ UNCHANGED aclVars

\* line 256
run_hybrid_return ==
    /\ pc = "hybrid"
    /\ pc' = "main"
    /\ UNCHANGED <<topo, conf, exc, heap, s_base, s_hyb, s_mono, r_map, rt_z3_map, acl_db,
                   todo, q, out, nq>>
    /\ UNCHANGED aclVars

Next ==
    \/ load_base_constraints
    \/ run_hybrid_benchmark
    \/ check_hybrid_assert
    \/ check_hybrid_KeyError
    \/ check_hybrid_solve
    \/ run_hybrid_return
    \/ run_monolithic_benchmark
    \/ run_monolithic_KeyError
    \/ check_mono_assert
    \/ check_mono_KeyError
    \/ check_mono_solve
    \/ run_monolithic_return

Spec == Init /\ [][Next]_vars


\* ================================================================ properties
Loaded == pc # "start"

BaseSet == BaseAssertions(topo, conf)

NoDuplicates(seq) == \A i, j \in DOMAIN seq : i # j => seq[i] # seq[j]

QueryOf(e) == Query(e.src, e.dst, e.ip)

\* the reference network: PE1 and PE2 declared once each and adjacent, the
\* reference configuration
IsReference ==
    /\ conf = ConfRef
    /\ NoDuplicates(topo.nodes)
    /\ {PE1, PE2} \subseteq Range(topo.nodes)

\* C2: a query evaluated by check_mono and by check_hybrid on the same model gets
\* the same verdict from both
C2_StrategiesAgree ==
    \A i, j \in DOMAIN out :
        (out[i].mode = "mono" /\ out[j].mode = "hybrid" /\ QueryOf(out[i]) = QueryOf(out[j]))
            => out[i].res = out[j].res

\* both strategies have answered one query, and the answer is unsat although the
\* base constraints are satisfiable: the chain of the destination denied it
C2_Witness ==
    /\ Loaded
    /\ Sat(BaseSet)
    /\ \E i, j \in DOMAIN out :
          /\ out[i].mode = "mono" /\ out[j].mode = "hybrid"
          /\ QueryOf(out[i]) = QueryOf(out[j])
          /\ out[i].res = "unsat"
    /\ \E i \in DOMAIN out : out[i].res = "sat"

\* the permanent assertions a clone was set up with
SetUp(mode, base) ==
    IF mode = "mono" THEN base \cup IpBounds \cup GlobalDefs(acl_db, r_map)
    ELSE base \cup IpBounds

RefOf(mode) == IF mode = "mono" THEN s_mono ELSE s_hyb

\* C3: between the evaluations of a run that returned a verdict the solver of the
\* run has the permanent assertions it was set up with and no open scope, and
\* two evaluations of one query in one run return the same verdict, whatever ran
\* in between
C3_QueriesLeaveNoTrace ==
    /\ (pc \in {"mono", "hybrid", "main"}) =>
          LET base == BaseSet
          IN  \A mode \in {"mono", "hybrid"} :
                  RefOf(mode) # 0
                      => /\ Depth(heap[RefOf(mode)]) = 0
                         /\ Permanent(heap[RefOf(mode)]) = SetUp(mode, base)
    /\ \A i, j \in DOMAIN out :
          (out[i].mode = out[j].mode /\ QueryOf(out[i]) = QueryOf(out[j]))
              => out[i].res = out[j].res

\* one run has evaluated A, then B, then A again, and A and B differ in verdict
C3_Witness ==
    /\ Len(out) = 3
    /\ out[1].mode = out[2].mode /\ out[2].mode = out[3].mode
    /\ QueryOf(out[1]) = QueryOf(out[3])
    /\ out[1].res # out[2].res
    /\ pc = out[1].mode

\* C4: a check that fails on a router id absent from r_map has opened no scope and
\* added no assertion
C4_NotFoundBeforeSolver ==
    \A mode \in {"mono", "hybrid"} :
        (exc # <<>> /\ exc[1].where = (IF mode = "mono" THEN "check_mono" ELSE "check_hybrid"))
            => /\ Depth(heap[RefOf(mode)]) = 0
               /\ Assertions(heap[RefOf(mode)]) = SetUp(mode, BaseSet)

DupRouterId == ~ NoDuplicates(topo.nodes)

Filters == UNION { Range(i.import_route_filters) : i \in Range(conf) }

BadAction == \E r \in Filters : r.action # <<>> /\ r.action[1] \notin {"permit", "deny"}

DupIndex ==
    \E i \in Range(conf) :
        \E m, n \in DOMAIN i.import_route_filters :
            /\ m # n
            /\ i.import_route_filters[m].index # <<>>
            /\ i.import_route_filters[m].index = i.import_route_filters[n].index

\* C5: model construction does not return a model for an input with a duplicated
\* router id, an action that is neither permit nor deny, or a duplicated index
C5_MalformedInputRejected ==
    (DupRouterId \/ BadAction \/ DupIndex) => s_base = 0

\* C6: distinct router ids and distinct route-target strings give pairwise
\* distinct identities and a satisfiable base constraint set
C6_DistinctIdentities ==
    (Loaded /\ NoDuplicates(topo.nodes))
        => /\ \A a, b \in DictKeys(r_map) : a # b => DictGet(r_map, a) # DictGet(r_map, b)
           /\ \A a, b \in DOMAIN rt_z3_map : a # b => rt_z3_map[a] # rt_z3_map[b]
           /\ Sat(Assertions(heap[s_base]))

\* C8: in the reference network PE1->PE2 for 192.168.1.1 is sat, PE2->PE1 for
\* 10.0.1.100 is unsat and PE2->PE1 for 10.0.99.1 is sat, under either strategy
C8_ReferenceVerdicts ==
    IsReference =>
        \A i \in DOMAIN out :
            /\ QueryOf(out[i]) = MonoWorkload[1] => out[i].res = "sat"
            /\ QueryOf(out[i]) = MonoWorkload[2] => out[i].res = "unsat"
            /\ QueryOf(out[i]) = MonoWorkload[3] => out[i].res = "sat"

\* the three queries have been answered in the reference network, by both strategies
C8_Witness ==
    /\ IsReference
    /\ {QueryOf(out[i]) : i \in DOMAIN out} = Range(MonoWorkload)
    /\ {out[i].mode : i \in DOMAIN out} = {"mono", "hybrid"}
    /\ \E i \in DOMAIN out : out[i].mode = "mono" /\ QueryOf(out[i]) = MonoWorkload[2]


\* no clone holds a quantified definition outside its permanent frame
ScopedForAll(s) == {f \in Assertions(s) \ Permanent(s) : f.k = "ForAll"}

C9_State ==
    /\ pc \in {"mono", "mono_check"} =>
          /\ \A nid \in DictKeys(r_map) :
                {f \in Permanent(heap[s_mono]) : f.k = "ForAll" /\ f.r = DictGet(r_map, nid)}
                    = {ForAllDenied("sym_ip", DictGet(r_map, nid),
                                    build_acl_logic("sym_ip", DictGet(acl_db, nid)))}
          /\ ScopedForAll(heap[s_mono]) = {}
    /\ s_hyb # 0 =>
          /\ {f \in Assertions(heap[s_hyb]) : f.k = "ForAll"} = {}
          /\ pc = "hybrid_check" =>
                {f.denied : f \in {x \in Assertions(heap[s_hyb]) : x.k = "Propagate"}}
                    = {build_acl_logic("target_ip_var", ChainOf(q[1].dst))}

C9_Step ==
    /\ (s_mono # 0 /\ pc # "error") => Permanent(heap'[s_mono]) = Permanent(heap[s_mono])
    /\ (s_hyb # 0 /\ pc # "error") => Permanent(heap'[s_hyb]) = Permanent(heap[s_hyb])

\* C9: while check_mono can run, the permanent assertions of its solver define
\* Is_Prefix_Denied_Global once for every router of r_map, from that router's
\* chain, and no step after the set-up changes the permanent assertions of either
\* solver; the solver of check_hybrid never holds a quantified definition, and the
\* only chain compiled in a check_hybrid call is the destination's
C9_EagerGlobalLazyLocal == [] C9_State /\ [][C9_Step]_vars

\* a check_mono call is in flight after check_hybrid has answered, in a topology
\* with a router that has no configuration
C9_Witness ==
    /\ pc = "mono_check"
    /\ \E i \in DOMAIN out : out[i].mode = "hybrid"
    /\ P3 \in DictKeys(r_map)
    /\ \E f \in Permanent(heap[s_mono]) : f.k = "ForAll" /\ f.body.op = "If"

\* the function whose call raised, "" when none did
RaisedIn == IF exc = <<>> THEN "" ELSE exc[1].where

\* C10: the base solver keeps the assertions of load_base_constraints and no scope;
\* each clone is an object of its own whose permanent assertions are those of the
\* base solver and the additions of its own run, and it has no open scope unless a
\* check of its own run is in progress or raised
C10_ClonesIsolated ==
    Loaded =>
        LET base == BaseSet
        IN  /\ heap[s_base] = [frames |-> <<base>>]
            /\ s_hyb # 0 =>
                  /\ s_hyb \notin {s_base, s_mono}
                  /\ Permanent(heap[s_hyb]) = base \cup IpBounds
                  /\ (pc # "hybrid_check" /\ RaisedIn # "check_hybrid")
                        => Depth(heap[s_hyb]) = 0
            /\ s_mono # 0 =>
                  /\ s_mono \notin {s_base, s_hyb}
                  /\ {f \in Permanent(heap[s_mono]) : f.k # "ForAll"} = base \cup IpBounds
                  /\ (pc # "mono_check" /\ RaisedIn # "check_mono")
                        => Depth(heap[s_mono]) = 0

\* the monolithic run came first and answered a query, and a check of the hybrid
\* run is in progress
C10_Witness ==
    /\ pc = "hybrid_check"
    /\ s_mono # 0 /\ s_mono < s_hyb
    /\ \E i \in DOMAIN out : out[i].mode = "mono"
    /\ Depth(heap[s_hyb]) = 1

\* ================================================================ the compiler alone
RuleShapes ==
    { <<<<Pfx(10, 0, 0, 0, 8)>>, <<>>>>,
      <<<<Ip(10, 0, 1, 0)>>, <<24>>>>,
      <<<<Pfx(192, 168, 1, 0, 24)>>, <<>>>>,
      <<<<Ip(10, 0, 1, 77)>>, <<>>>> }

\* chains as load_base_constraints stores them: ascending index
Chains ==
    UNION { { [i \in 1..n |-> Rule(<<10 * i>>, c[i][1][1], c[i][1][2], <<c[i][2]>>)] :
              c \in [1..n -> RuleShapes \X {"permit", "deny"}] } : n \in 0..MaxRules }

SessionIdle ==
    /\ topo = Topo(<<>>, <<>>)
    /\ conf = <<>>
    /\ pc = "compiler"
    /\ exc = <<>>
    /\ heap = <<>>
    /\ s_base = 0
    /\ s_hyb = 0
    /\ s_mono = 0
    /\ r_map = <<>>
    /\ rt_z3_map = <<>>
    /\ acl_db = <<>>
    /\ todo = {}
    /\ q = <<>>
    /\ out = <<>>
    /\ nq = 0

AclInit ==
    /\ SessionIdle
    /\ rules \in Chains
    /\ acl_expr = <<>>
    /\ prev_expr = <<>>
    /\ swapped = <<>>

\* lines 40-58
compile ==
    /\ acl_expr = <<>>
    /\ acl_expr' = <<build_acl_logic("ip_var", rules)>>
    /\ UNCHANGED <<rules, prev_expr, swapped>>
    /\ UNCHANGED sessionVars

\* the filters with the indexes of two rules exchanged
Exchanged(chain, i, j) ==
    [n \in DOMAIN chain |->
        IF n = i THEN [chain[i] EXCEPT !.index = chain[j].index]
        ELSE IF n = j THEN [chain[j] EXCEPT !.index = chain[i].index]
        ELSE chain[n]]

\* lines 109-110: the chain is stored again, two of its rules having exchanged
\* their indexes
reorder ==
    /\ acl_expr # <<>>
    /\ swapped = <<>>
    /\ \E i, j \in DOMAIN rules :
          /\ i < j
          /\ rules' = SortByIndex(Exchanged(rules, i, j))
          /\ swapped' = <<i, j>>
    /\ prev_expr' = acl_expr
    /\ acl_expr' = <<>>
    /\ UNCHANGED sessionVars

AclNext == compile \/ reorder

SpecAcl == AclInit /\ [][AclNext]_vars

IntervalsOf(chain) == [i \in DOMAIN chain |-> RuleInterval(chain[i])]

\* address a lies in the interval iv = <<start, end>>
Within(iv, a) == IntLe(iv[1], a) /\ IntLe(a, iv[2])

\* the verdict of a scan in stored order that stops at the first rule whose
\* interval (ivs[i] for rule i) contains the address
FirstMatchDenies(chain, ivs, a) ==
    LET hits == {i \in DOMAIN chain : Within(ivs[i], a)}
    IN  /\ hits # {}
        /\ Get(chain[CHOOSE i \in hits : \A k \in hits : i <= k].action, "permit") = "deny"

InRange(a) == IntLe(<<0, 0>>, a) /\ IntLe(a, MaxIp)

\* one address of every region that the interval ends cut [0, 2^32-1] into, and
\* the addresses of the benchmark queries
Probes(ivs) ==
    { a \in UNION { { ivs[i][1], IntPred(ivs[i][1]), ivs[i][2], IntSucc(ivs[i][2]) } :
                    i \in DOMAIN ivs } : InRange(a) }
    \cup { <<0, 0>>, MaxIp } \cup { ip_str_to_int(x.ip) : x \in Queries }

\* C1: the term built by build_acl_logic is 'denied' at an address exactly when
\* the first rule of the chain that contains the address is a deny rule
C1_CompiledIsFirstMatch ==
    acl_expr # <<>> =>
        LET ivs == IntervalsOf(rules)
        IN  \A a \in Probes(ivs) :
                EvalBool(acl_expr[1], a) = FirstMatchDenies(rules, ivs, a)

\* a compiled chain where the second rule decides one address (deny) and the
\* first rule another, and some address matches no rule
C1_Witness ==
    /\ acl_expr # <<>>
    /\ Len(rules) = 2
    /\ LET ivs == IntervalsOf(rules)
       IN  /\ \E a \in Probes(ivs) :
                 ~ Within(ivs[1], a) /\ Within(ivs[2], a) /\ EvalBool(acl_expr[1], a)
           /\ \E a \in Probes(ivs) :
                 Within(ivs[1], a) /\ Within(ivs[2], a) /\ ~ EvalBool(acl_expr[1], a)
           /\ \E a \in Probes(ivs) :
                 ~ Within(ivs[1], a) /\ ~ Within(ivs[2], a) /\ ~ EvalBool(acl_expr[1], a)

\* the chain was stored again with rules i and j exchanged and both terms are
\* built; one of the two rules denies while the other permits
SwapDone ==
    /\ swapped # <<>>
    /\ acl_expr # <<>>
    /\ ActionDeny(rules[swapped[1]]) # ActionDeny(rules[swapped[2]])

\* the intervals of the two exchanged rules have an address in common
Overlap(ivs) == \E a \in Probes(ivs) : Within(ivs[swapped[1]], a) /\ Within(ivs[swapped[2]], a)

Changed(a) == EvalBool(prev_expr[1], a) # EvalBool(acl_expr[1], a)

\* C7 as stated: exchanging two overlapping rules of different action changes the
\* verdict at every address of the intersection and at no other address
C7_SwapChangesExactlyOverlap ==
    SwapDone =>
        LET ivs == IntervalsOf(rules)
        IN  Overlap(ivs) =>
                \A a \in Probes(ivs) :
                    Changed(a) <=> (Within(ivs[swapped[1]], a) /\ Within(ivs[swapped[2]], a))

\* C7, amended: exchanging two adjacent overlapping rules of different action
\* changes the verdict at every address of the intersection that no earlier rule
\* of the chain contains, and at no other address
C7_AdjacentSwap ==
    (SwapDone /\ swapped[2] = swapped[1] + 1) =>
        LET ivs == IntervalsOf(rules)
        IN  Overlap(ivs) =>
                \A a \in Probes(ivs) :
                    Changed(a) <=> /\ Within(ivs[swapped[1]], a)
                                   /\ Within(ivs[swapped[2]], a)
                                   /\ \A k \in 1..(swapped[1] - 1) : ~ Within(ivs[k], a)

\* two adjacent overlapping rules behind a third were exchanged: the verdict
\* changed at one address of the intersection, stayed at an address of the
\* intersection that the earlier rule contains, and stayed at an address outside
C7_Witness ==
    /\ SwapDone
    /\ swapped = <<2, 3>>
    /\ LET ivs == IntervalsOf(rules)
       IN  /\ \E a \in Probes(ivs) : Changed(a)
           /\ \E a \in Probes(ivs) :
                 /\ ~ Changed(a)
                 /\ Within(ivs[1], a) /\ Within(ivs[2], a) /\ Within(ivs[3], a)
           /\ \E a \in Probes(ivs) :
                 ~ Changed(a) /\ Within(ivs[2], a) # Within(ivs[3], a)

=============================================================================
